---------------------------- MODULE Spec2Model ----------------------------
(***************************************************************************)
(* A model of the ELF parser of src/elf/file.rs: File::parse over a        *)
(* seekable byte stream, and the string-table lookup get_elf_string.       *)
(*                                                                         *)
(* The stream is a sequence of bytes together with an optional offset from *)
(* which every read of the underlying device fails.  File::parse is        *)
(* modelled phase by phase (identification, header, section table,         *)
(* payloads, symbols, names, assembly); at the end status is "ok"          *)
(* (Ok(File)), "err" (Err(cause)) or "panic" (the thread panics) and pc    *)
(* stays at the phase that ended the parse.                                *)
(***************************************************************************)
EXTENDS Integers, Sequences, FiniteSets, TLC

VARIABLES
    stream,         \* the bytes of the input r
    failAt,         \* offset from which reads of r return Err, or NoFail
    pc,             \* the phase File::parse is in, or ended in
    status,         \* "running", or how parse ended: "ok", "err", "panic"
    err,            \* the cause of the Err, or the panic message, or NoErr
    pos,            \* the cursor of r
    eident,         \* the identification buffer [0u8; EI_NIDENT]
    hdr,            \* the decoded header fields (locals of parse)
    name_idxs,      \* Vec<u32> of section-name offsets
    sections_lst,   \* Vec<SectionHeader>
    sections_data,  \* Vec<Vec<u8>>
    symbols,        \* HashMap<String, u64>
    result,         \* the returned File, or NoFile
    strIn,          \* get_elf_string harness: the arguments
    strOut          \* get_elf_string harness: the outcome

vars == <<stream, failAt, pc, status, err, pos, eident, hdr, name_idxs, sections_lst,
          sections_data, symbols, result, strIn, strOut>>

parseVars == <<stream, failAt, pc, status, err, pos, eident, hdr, name_idxs,
               sections_lst, sections_data, symbols, result>>

-----------------------------------------------------------------------------
(* Constants of elf::types used by file.rs.                                *)

EI_NIDENT == 16
EI_CLASS == 4
EI_DATA == 5
EI_OSABI == 7
EI_ABIVERSION == 8
ELFMAG == <<127, 69, 76, 70>>
ELFCLASS32 == 1
ELFCLASS64 == 2
ELFDATA2LSB == 1
ELFDATA2MSB == 2
SHT_SYMTAB == 2

NoFail == 0 - 1
NoErr == "none"
NoFile == <<>>
ErrMagic == "invalid magic number"
ErrEndian == "invalid endianness"
ErrClass == "invalid class"
ErrIo == "io error"
PanicUnwrap == "called Result::unwrap() on an Err value"
PanicIndex == "index out of bounds"
PanicDivZero == "attempt to divide by zero"
PanicOverflow == "attempt to subtract with overflow"

-----------------------------------------------------------------------------
(* Sequences, maps.                                                        *)

Min(a, b) == IF a < b THEN a ELSE b
Max(a, b) == IF a > b THEN a ELSE b

\* s[from .. to) with 0-based offsets, clipped to the sequence.
Slice(s, from, to) ==
    LET hi == Min(to, Len(s))
    IN  IF from >= hi THEN <<>> ELSE SubSeq(s, from + 1, hi)

RECURSIVE Zeros(_)
Zeros(n) == IF n <= 0 THEN <<>> ELSE <<0>> \o Zeros(n - 1)

EmptyMap == <<>>

\* HashMap::insert: a later insert of an equal key replaces the value.
MapInsert(m, k, v) ==
    [x \in (DOMAIN m) \cup {k} |-> IF x = k THEN v ELSE m[x]]

-----------------------------------------------------------------------------
(* The reader.                                                             *)

\* A read of r at offset q fails when the device fails from failAt on.
Bad(bad, q) == bad # NoFail /\ q >= bad

\* Number of bytes readable from offset p before the end of the buffer or
\* the failing offset.
Avail(buf, bad, p) ==
    LET lim == IF bad = NoFail THEN Len(buf) ELSE Min(Len(buf), bad)
    IN  Max(lim - p, 0)

\* The value of the first n bytes of bs, most significant first.
RECURSIVE BeValue(_, _)
BeValue(bs, n) == IF n = 0 THEN 0 ELSE BeValue(bs, n - 1) * 256 + bs[n]

\* The value of the bytes of bs from the i-th on, least significant first.
RECURSIVE LeValue(_, _)
LeValue(bs, i) == IF i > Len(bs) THEN 0 ELSE bs[i] + 256 * LeValue(bs, i + 1)

\* read_u8!, read_u16!, read_u32!, read_u64!: w bytes at p in the byte order
\* `data`; the byte order is matched before the stream is touched, and the
\* read is a read_exact.
ReadUint(buf, bad, data, p, w) ==
    IF w > 1 /\ data \notin {ELFDATA2LSB, ELFDATA2MSB}
    THEN [st |-> "err", err |-> ErrEndian]
    ELSE IF Avail(buf, bad, p) < w
    THEN [st |-> "err", err |-> ErrIo]
    ELSE LET bs == Slice(buf, p, p + w)
         IN  [st |-> "ok", pos |-> p + w,
              val |-> IF data = ELFDATA2MSB THEN BeValue(bs, w)
                      ELSE LeValue(bs, 1)]

\* The sum of the first n elements of s.
RECURSIVE SumFirst(_, _)
SumFirst(s, n) == IF n = 0 THEN 0 ELSE SumFirst(s, n - 1) + s[n]

\* A run of try!(read_uN!(data, r)) in program order: field j is read where
\* field j - 1 ended, and the first failure is returned.
ReadFields(buf, bad, data, p, widths) ==
    LET n == Len(widths)
        R(j) == ReadUint(buf, bad, data, p + SumFirst(widths, j - 1), widths[j])
        failed == {j \in 1..n : R(j).st # "ok"}
    IN  IF failed # {} THEN R(CHOOSE j \in failed : \A k \in failed : j <= k)
        ELSE [st |-> "ok", pos |-> p + SumFirst(widths, n),
              vals |-> [j \in 1..n |-> R(j).val]]

-----------------------------------------------------------------------------
(* get_elf_string.                                                         *)

\* Mutant: the scan starts one byte after start.
FindEnd_SkipStart(data, start) ==
    LET zs == {i \in (start + 1)..(Len(data) - 1) : data[i + 1] = 0}
    IN  IF zs = {} THEN 0 ELSE CHOOSE i \in zs : \A j \in zs : i <= j

\* The first loop: the offset of the first zero byte at or after start,
\* or 0 when there is none.
FindEnd(data, start) ==
    LET zs == {i \in start..(Len(data) - 1) : data[i + 1] = 0}
    IN  IF zs = {} THEN 0 ELSE CHOOSE i \in zs : \A j \in zs : i <= j

\* String::with_capacity(end - start) on usize: with end < start the
\* subtraction overflows (a panic in a checked build; wrapped, it exceeds
\* isize::MAX and with_capacity panics with "capacity overflow").
get_elf_string(data, start) ==
    LET end == FindEnd(data, start)
    IN  IF end < start THEN [st |-> "panic", msg |-> PanicOverflow]
        ELSE [st |-> "ok", val |-> Slice(data, start, end)]


-----------------------------------------------------------------------------
(* File::parse, phase by phase.                                            *)

\* try!(Err(e)) / return Err(e): the locals are dropped, no File is built.
Fail(e) ==
    /\ status' = "err"
    /\ err' = e
    /\ UNCHANGED <<stream, failAt, pc, pos, eident, hdr, name_idxs,
                   sections_lst, sections_data, symbols, result, strIn, strOut>>

\* An unwinding panic: parse returns nothing.
Panic(msg) ==
    /\ status' = "panic"
    /\ err' = msg
    /\ UNCHANGED <<stream, failAt, pc, pos, eident, hdr, name_idxs,
                   sections_lst, sections_data, symbols, result, strIn, strOut>>

\* Mutant: only the first three magic bytes are compared.
MagicOk_ThreeBytes(buf) == SubSeq(buf, 1, 3) = SubSeq(ELFMAG, 1, 3)

\* eident[0..4] != types::ELFMAG
MagicOk(buf) == SubSeq(buf, 1, 4) = ELFMAG

\* r.seek(Start(0)); r.read(&mut eident): one read call, which may return
\* fewer than EI_NIDENT bytes and leaves the rest of the buffer zero; then
\* the magic check.
ParseIdent ==
    /\ status = "running"
    /\ pc = "ident"
    /\ IF Bad(failAt, 0) THEN Fail(ErrIo)
       ELSE LET n == Min(EI_NIDENT, Avail(stream, failAt, 0))
                buf == Slice(stream, 0, n) \o Zeros(EI_NIDENT - n)
            IN  IF ~MagicOk(buf) THEN Fail(ErrMagic)
                ELSE /\ pc' = "header"
                     /\ eident' = buf
                     /\ pos' = n
                     /\ UNCHANGED <<stream, failAt, status, err, hdr,
                                    name_idxs, sections_lst, sections_data,
                                    symbols, result, strIn, strOut>>

\* Widths of entry, phoff, shoff for a class.
AddrWidth(class) == IF class = ELFCLASS32 THEN 4 ELSE 8

\* The fields read after the class match: entry, phoff, shoff, flags,
\* ehsize, phentsize, phnum, shentsize, shnum, shstrndx.
HeaderTail(class) ==
    <<AddrWidth(class), AddrWidth(class), AddrWidth(class), 4, 2, 2, 2, 2, 2, 2>>

\* match class { ELFCLASS32 => .., ELFCLASS64 => .., _ => return Err(..) }
ClassOk(class) == class \in {ELFCLASS32, ELFCLASS64}

\* Mutant: the class is matched before elf_type, machine, version are read.
HeaderPrefixErr_ClassFirst(r1, class) ==
    IF ~ClassOk(class) THEN ErrClass
    ELSE IF r1.st # "ok" THEN r1.err
    ELSE NoErr

\* The first failure of lines 86-106: the reads of elf_type, machine, version
\* (r1 is their outcome) come first, the class match after them.
HeaderPrefixErr(r1, class) ==
    IF r1.st # "ok" THEN r1.err
    ELSE IF ~ClassOk(class) THEN ErrClass
    ELSE NoErr

\* elf_type, machine, version are read in the byte order of eident[EI_DATA]
\* before the class is matched; then the class-dependent fields.
ParseHeader ==
    /\ status = "running"
    /\ pc = "header"
    /\ LET class == eident[EI_CLASS + 1]
           data == eident[EI_DATA + 1]
       IN  \E r1 \in {ReadFields(stream, failAt, data, pos, <<2, 2, 4>>)} :
             IF HeaderPrefixErr(r1, class) # NoErr
             THEN Fail(HeaderPrefixErr(r1, class))
             ELSE \E r2 \in {ReadFields(stream, failAt, data, r1.pos,
                                        HeaderTail(class))} :
                    IF r2.st # "ok" THEN Fail(r2.err)
                    ELSE /\ pc' = "shdrs"
                         /\ pos' = r2.pos
                         /\ hdr' = [class |-> class, data |-> data,
                                    os_abi |-> eident[EI_OSABI + 1],
                                    abi_version |-> eident[EI_ABIVERSION + 1],
                                    elf_type |-> r1.vals[1],
                                    machine |-> r1.vals[2],
                                    version |-> r1.vals[3],
                                    entry |-> r2.vals[1],
                                    shoff |-> r2.vals[3],
                                    shnum |-> r2.vals[9],
                                    shstrndx |-> r2.vals[10]]
                         /\ UNCHANGED <<stream, failAt, status, err, eident,
                                        name_idxs, sections_lst, sections_data,
                                        symbols, result, strIn, strOut>>

\* One section header record: name, shtype, flags, addr, offset, size,
\* link, info, addralign, entsize.
ShdrWidths(class) ==
    IF class = ELFCLASS32 THEN <<4, 4, 4, 4, 4, 4, 4, 4, 4, 4>>
    ELSE <<4, 4, 8, 8, 8, 8, 4, 4, 8, 8>>

ShdrFields == 10

RECURSIVE Repeat(_, _)
Repeat(s, n) == IF n = 0 THEN <<>> ELSE s \o Repeat(s, n - 1)

\* r.seek(Start(shoff)) and shnum records read back to back.
ParseSectionHeaders ==
    /\ status = "running"
    /\ pc = "shdrs"
    /\ \E r \in {ReadFields(stream, failAt, hdr.data, hdr.shoff,
                            Repeat(ShdrWidths(hdr.class), hdr.shnum))} :
        LET F(i, j) == r.vals[(i - 1) * ShdrFields + j]
        IN  IF r.st # "ok" THEN Fail(r.err)
               ELSE /\ pc' = "payload"
                    /\ pos' = r.pos
                    /\ name_idxs' = [i \in 1..hdr.shnum |-> F(i, 1)]
                    /\ sections_lst' =
                           [i \in 1..hdr.shnum |->
                               [name |-> <<>>, shtype |-> F(i, 2), flags |-> F(i, 3),
                                addr |-> F(i, 4), offset |-> F(i, 5),
                                size |-> F(i, 6), link |-> F(i, 7),
                                info |-> F(i, 8), addralign |-> F(i, 9),
                                entsize |-> F(i, 10)]]
                    /\ UNCHANGED <<stream, failAt, status, err, eident, hdr,
                                   sections_data, symbols, result, strIn,
                                   strOut>>

\* r.seek(Start(off)); r.bytes().map(|x| x.unwrap()).take(size).collect():
\* bytes are pulled one at a time; the end of the stream ends the iterator
\* (a shorter Vec), a failed read is unwrapped (a panic).
LoadPayload(buf, bad, off, size) ==
    IF size > 0 /\ bad # NoFail /\ Max(off, bad) < off + size
                /\ Max(off, bad) <= Max(off, Len(buf))
    THEN [st |-> "panic", msg |-> PanicUnwrap]
    ELSE [st |-> "ok", val |-> Slice(buf, off, off + size)]

LoadPayloads ==
    /\ status = "running"
    /\ pc = "payload"
    /\ LET L(i) == LoadPayload(stream, failAt, sections_lst[i].offset,
                               sections_lst[i].size)
       IN  IF \E i \in 1..hdr.shnum : L(i).st = "panic" THEN Panic(PanicUnwrap)
           ELSE /\ pc' = "symbols"
                /\ sections_data' = [i \in 1..hdr.shnum |-> L(i).val]
                /\ UNCHANGED <<stream, failAt, status, err, pos, eident, hdr,
                               name_idxs, sections_lst, symbols, result,
                               strIn, strOut>>

\* The fields of one symbol record as parse reads them: name and value for
\* class 32; name, info, other, shndx, value for class 64.
SymWidths(class) == IF class = ELFCLASS32 THEN <<4, 4>> ELSE <<4, 1, 1, 2, 8>>

\* Record k of a symbol table: the cursor over the section's own payload is
\* set to k * entsize and the fields are read from there.
SymRecord(class, data, payload, entsize, k) ==
    LET r == ReadFields(payload, NoFail, data, k * entsize, SymWidths(class))
    IN  IF r.st # "ok" THEN r
        ELSE [st |-> "ok", sym_name |-> r.vals[1],
              sym_addr |-> r.vals[Len(r.vals)]]

\* Mutant: a name already in the map keeps its first address.
InsertSymbol_KeepFirst(sdata, syms, link, rec) ==
    IF link >= Len(sdata) THEN [st |-> "panic", msg |-> PanicIndex]
    ELSE LET s == get_elf_string(sdata[link + 1], rec.sym_name)
         IN  IF s.st # "ok" THEN s
             ELSE IF s.val \in DOMAIN syms THEN [st |-> "ok", symbols |-> syms]
             ELSE [st |-> "ok", symbols |-> MapInsert(syms, s.val, rec.sym_addr)]

\* symbols.insert(get_elf_string(&sections_data[link], sym_name), sym_addr)
InsertSymbol(sdata, syms, link, rec) ==
    IF link >= Len(sdata) THEN [st |-> "panic", msg |-> PanicIndex]
    ELSE LET s == get_elf_string(sdata[link + 1], rec.sym_name)
         IN  IF s.st # "ok" THEN s
             ELSE [st |-> "ok", symbols |-> MapInsert(syms, s.val, rec.sym_addr)]

\* Number of records of a symbol table: size / entsize (u64 division).
SymCount(sh) == sh.size \div sh.entsize

\* for i in 0..(size / entsize): records k, k+1, ... of section i.
RECURSIVE SymRecords(_, _, _, _, _, _, _)
SymRecords(class, data, lst, sdata, i, k, syms) ==
    IF k >= SymCount(lst[i]) THEN [st |-> "ok", symbols |-> syms]
    ELSE LET rec == SymRecord(class, data, sdata[i], lst[i].entsize, k)
             ins == InsertSymbol(sdata, syms, lst[i].link, rec)
         IN  IF rec.st # "ok" THEN rec
             ELSE IF ins.st # "ok" THEN ins
             ELSE SymRecords(class, data, lst, sdata, i, k + 1, ins.symbols)

\* for (i, section) in sections_lst.iter().enumerate(): sections i, i+1, ...
RECURSIVE SymSections(_, _, _, _, _, _)
SymSections(class, data, lst, sdata, i, syms) ==
    IF i > Len(lst) THEN [st |-> "ok", symbols |-> syms]
    ELSE IF lst[i].shtype # SHT_SYMTAB
    THEN SymSections(class, data, lst, sdata, i + 1, syms)
    ELSE IF lst[i].entsize = 0 THEN [st |-> "panic", msg |-> PanicDivZero]
    ELSE LET r == SymRecords(class, data, lst, sdata, i, 0, syms)
         IN  IF r.st # "ok" THEN r
             ELSE SymSections(class, data, lst, sdata, i + 1, r.symbols)

ExtractSymbols ==
    /\ status = "running"
    /\ pc = "symbols"
    /\ \E r \in {SymSections(hdr.class, hdr.data, sections_lst, sections_data,
                             1, EmptyMap)} :
         IF r.st = "panic" THEN Panic(r.msg)
         ELSE IF r.st = "err" THEN Fail(r.err)
         ELSE /\ pc' = "names"
              /\ symbols' = r.symbols
              /\ UNCHANGED <<stream, failAt, status, err, pos, eident, hdr,
                             name_idxs, sections_lst, sections_data, result,
                             strIn, strOut>>

\* get_elf_string(&sections_data[shstrndx], name_idxs[i])
SectionName(sdata, shstrndx, idx) ==
    IF shstrndx >= Len(sdata) THEN [st |-> "panic", msg |-> PanicIndex]
    ELSE get_elf_string(sdata[shstrndx + 1], idx)

\* for i in 0..shnum { sections_lst[i].name = .. }: the first lookup that
\* panics ends the loop.
BackfillNames ==
    /\ status = "running"
    /\ pc = "names"
    /\ LET N(i) == SectionName(sections_data, hdr.shstrndx, name_idxs[i])
           bad == {i \in 1..hdr.shnum : N(i).st = "panic"}
       IN  IF bad # {}
           THEN Panic(N(CHOOSE i \in bad : \A j \in bad : i <= j).msg)
           ELSE /\ pc' = "assemble"
                /\ sections_lst' =
                       [i \in 1..hdr.shnum |->
                           [sections_lst[i] EXCEPT !.name = N(i).val]]
                /\ UNCHANGED <<stream, failAt, status, err, pos, eident, hdr,
                               name_idxs, sections_data, symbols, result,
                               strIn, strOut>>

\* Section { name, addr, offset, size, data }
MkSection(h, d) ==
    [name |-> h.name, addr |-> h.addr, offset |-> h.offset, size |-> h.size,
     data |-> d]

\* Mutant: a name already in the map keeps its first section.
RECURSIVE InsertSections_KeepFirst(_, _, _, _)
InsertSections_KeepFirst(lst, sdata, i, m) ==
    IF i > Len(lst) \/ i > Len(sdata) THEN m
    ELSE InsertSections_KeepFirst(lst, sdata, i + 1,
             IF lst[i].name \in DOMAIN m THEN m
             ELSE MapInsert(m, lst[i].name, MkSection(lst[i], sdata[i])))

\* for (hdr, data) in sections_lst.zip(sections_data):
\*     sections.insert(hdr.name.clone(), Section {..})
RECURSIVE InsertSections(_, _, _, _)
InsertSections(lst, sdata, i, m) ==
    IF i > Len(lst) \/ i > Len(sdata) THEN m
    ELSE InsertSections(lst, sdata, i + 1,
                        MapInsert(m, lst[i].name, MkSection(lst[i], sdata[i])))

\* let x = File { hdr: .., sections: .., symbols: .. }; Ok(x)
Assemble ==
    /\ status = "running"
    /\ pc = "assemble"
    /\ pc' = "done"
    /\ status' = "ok"
    /\ result' = <<[hdr |-> [class |-> hdr.class, data |-> hdr.data,
                             version |-> hdr.version, os_abi |-> hdr.os_abi,
                             abi_version |-> hdr.abi_version,
                             elf_type |-> hdr.elf_type,
                             machine |-> hdr.machine,
                             entrypoint |-> hdr.entry],
                    sections |-> InsertSections(sections_lst, sections_data,
                                                1, EmptyMap),
                    symbols |-> symbols]>>
    /\ UNCHANGED <<stream, failAt, err, pos, eident, hdr, name_idxs,
                   sections_lst, sections_data, symbols, strIn, strOut>>

Next ==
    \/ ParseIdent
    \/ ParseHeader
    \/ ParseSectionHeaders
    \/ LoadPayloads
    \/ ExtractSymbols
    \/ BackfillNames
    \/ Assemble

-----------------------------------------------------------------------------
(* Input streams: ELF images laid out as parse reads them                  *)
(* (identification, header, section table at shoff, then the payloads),    *)
(* with malformed fields, cut short, or on a failing device.               *)

MaxSections == 2     \* sections of an image
MaxSyms == 3         \* records of the symbol payload
MaxNameIdx == 5      \* largest string-table offset tried
MaxIdentByte == 3    \* largest class / data byte tried
MaxLink == 3         \* largest link / shstrndx tried
MaxEntMul == 2       \* entsize tried: 0 .. MaxEntMul record sizes
MaxStrLen == 4       \* longest string table given to get_elf_string alone

Sum(s) == SumFirst(s, Len(s))

RECURSIVE SeqsUpTo(_, _)
SeqsUpTo(S, n) ==
    IF n = 0 THEN {<<>>}
    ELSE LET shorter == SeqsUpTo(S, n - 1)
         IN  shorter \cup {Append(q, x) : q \in {t \in shorter : Len(t) = n - 1},
                                           x \in S}

\* v < 2^24 in w bytes, in the byte order dat (little-endian unless MSB).
EncUint(v, w, dat) ==
    LET lo == <<v % 256, (v \div 256) % 256, v \div 65536>>
    IN  IF dat = ELFDATA2MSB
        THEN Zeros(w - Min(w, 3)) \o SubSeq(<<lo[3], lo[2], lo[1]>>, 4 - Min(w, 3), 3)
        ELSE SubSeq(lo, 1, Min(w, 3)) \o Zeros(w - Min(w, 3))

RECURSIVE EncFields(_, _, _)
EncFields(vals, widths, dat) ==
    IF vals = <<>> THEN <<>>
    ELSE EncUint(Head(vals), Head(widths), dat)
             \o EncFields(Tail(vals), Tail(widths), dat)

\* The class whose layout an image is written in.
LayoutClass(fx) == IF fx.clsByte = ELFCLASS64 THEN ELFCLASS64 ELSE ELFCLASS32

HdrSize(fx) == EI_NIDENT + Sum(<<2, 2, 4>>) + Sum(HeaderTail(LayoutClass(fx)))
ShdrSize(fx) == Sum(ShdrWidths(LayoutClass(fx)))
SymSize(fx) == Sum(SymWidths(LayoutClass(fx)))
StrOff(fx) == HdrSize(fx) + Len(fx.secs) * ShdrSize(fx)
SymOff(fx) == StrOff(fx) + Len(fx.strtab)

\* eident: magic, class, data, version 1, OS ABI 3, ABI version 1, padding.
EncIdent(fx) ==
    fx.magic \o <<fx.clsByte, fx.datByte, 1, 3, 1>> \o Zeros(EI_NIDENT - 9)

\* type 2, machine 62, version 1; entry 0x1234, phoff 0, shoff, flags 0,
\* ehsize, phentsize 0, phnum 0, shentsize, shnum, shstrndx.
EncHeader(fx) ==
    EncFields(<<2, 62, 1>>, <<2, 2, 4>>, fx.datByte)
    \o EncFields(<<4660, 0, HdrSize(fx), 0, HdrSize(fx), 0, 0, ShdrSize(fx),
                   Len(fx.secs), fx.shstrndx>>,
                 HeaderTail(LayoutClass(fx)), fx.datByte)

\* Section i: a string table (type 3) over the string payload, or a symbol
\* table over the symbol payload; addr 0x1000 + i.
EncShdr(fx, i) ==
    LET d == fx.secs[i]
        sym == d.kind = "sym"
    IN  EncFields(<<d.name, IF sym THEN SHT_SYMTAB ELSE 3, 0, 4096 + i,
                    IF sym THEN SymOff(fx) ELSE StrOff(fx),
                    IF sym THEN Max(Len(fx.syms) * SymSize(fx) + d.sizeAdj, 0)
                           ELSE Len(fx.strtab),
                    d.link, 0, 1,
                    IF sym THEN d.entMul * SymSize(fx) ELSE 0>>,
                  ShdrWidths(LayoutClass(fx)), fx.datByte)

\* Symbol record k: name offset fx.syms[k], value 0x200 + k.
EncSym(fx, k) ==
    IF LayoutClass(fx) = ELFCLASS32
    THEN EncFields(<<fx.syms[k], 512 + k>>, SymWidths(ELFCLASS32), fx.datByte)
    ELSE EncFields(<<fx.syms[k], 0, 0, 0, 512 + k>>, SymWidths(ELFCLASS64),
                   fx.datByte)

RECURSIVE Concat(_, _, _)
Concat(F(_), i, n) == IF i > n THEN <<>> ELSE F(i) \o Concat(F, i + 1, n)

Image(fx) ==
    LET Sh(i) == EncShdr(fx, i)
        Sy(k) == EncSym(fx, k)
    IN  EncIdent(fx) \o EncHeader(fx) \o Concat(Sh, 1, Len(fx.secs))
            \o fx.strtab \o Concat(Sy, 1, Len(fx.syms))

StrSec(n) == [kind |-> "str", name |-> n, link |-> 0, entMul |-> 0, sizeAdj |-> 0]
SymSec(n, l, e, a) ==
    [kind |-> "sym", name |-> n, link |-> l, entMul |-> e, sizeAdj |-> a]

\* "\0a\0b\0"
StrTab0 == <<0, 97, 0, 98, 0>>

\* A well-formed image: a string table (also the section-name table) and a
\* symbol table linked to it, with symbols "a" and "b".
Base(cls, dat) ==
    [magic |-> ELFMAG, clsByte |-> cls, datByte |-> dat, shstrndx |-> 0,
     secs |-> <<StrSec(1), SymSec(3, 0, 1, 0)>>, strtab |-> StrTab0,
     syms |-> <<1, 3>>, cut |-> -1, fail |-> NoFail]

Classes == {ELFCLASS32, ELFCLASS64}
Datas == {ELFDATA2LSB, ELFDATA2MSB}

StreamOf(fx) ==
    IF fx.cut < 0 THEN Image(fx) ELSE Slice(Image(fx), 0, fx.cut)

EmptyHdr ==
    [class |-> 0, data |-> 0, os_abi |-> 0, abi_version |-> 0, elf_type |-> 0,
     machine |-> 0, version |-> 0, entry |-> 0, shoff |-> 0, shnum |-> 0,
     shstrndx |-> 0]

StrIdle == [st |-> "idle"]

\* File::parse is entered with the stream; nothing is decoded yet.
Start(fx) ==
    /\ stream = StreamOf(fx)
    /\ failAt = fx.fail
    /\ pc = "ident"
    /\ status = "running"
    /\ err = NoErr
    /\ pos = 0
    /\ eident = Zeros(EI_NIDENT)
    /\ hdr = EmptyHdr
    /\ name_idxs = <<>>
    /\ sections_lst = <<>>
    /\ sections_data = <<>>
    /\ symbols = EmptyMap
    /\ result = NoFile
    /\ strIn = StrIdle
    /\ strOut = StrIdle

\* Any table of up to MaxSections sections and up to MaxSyms symbols.
InitStructure ==
    \E c \in Classes, d \in Datas :
        \E ss \in SeqsUpTo({StrSec(1), StrSec(3), SymSec(1, 0, 1, 0),
                            SymSec(3, 1, 1, 0)}, MaxSections),
           sy \in SeqsUpTo({1, 3}, MaxSyms) :
            Start([Base(c, d) EXCEPT !.secs = ss, !.syms = sy])

\* String tables with and without terminators; name offsets up to and past
\* the end of the table.
InitStrings ==
    \E c \in Classes, d \in Datas :
        \E t \in {StrTab0, <<0, 97, 0, 98>>, <<97, 98>>, <<>>},
           n \in 0..MaxNameIdx, s \in 0..MaxNameIdx :
            Start([Base(c, d) EXCEPT !.strtab = t, !.syms = <<s>>,
                       !.secs = <<StrSec(n), SymSec(0, 0, 1, 0)>>])

\* Symbol tables with any link, entsize and size, and any shstrndx.
InitSymtab ==
    \E c \in Classes, d \in Datas :
        \E l \in 0..MaxLink, e \in 0..MaxEntMul, x \in 0..MaxLink,
           a \in {-1, 0, 1, Sum(SymWidths(c))} :
            Start([Base(c, d) EXCEPT !.secs = <<StrSec(1), SymSec(3, l, e, a)>>,
                                     !.shstrndx = x])

\* The well-formed image, and one with the string table alone.
Bases(c, d) ==
    {Base(c, d), [Base(c, d) EXCEPT !.secs = <<StrSec(1)>>, !.syms = <<>>]}

\* Images cut short at any length.
InitCut ==
    \E c \in Classes, d \in Datas :
        \E b \in Bases(c, d) :
            \E n \in 0..(Len(Image(b)) - 1) : Start([b EXCEPT !.cut = n])

\* Images on a device that fails from some offset on.
InitFail ==
    \E c \in Classes, d \in Datas :
        \E b \in Bases(c, d) :
            \E n \in 0..(Len(Image(b)) - 1) : Start([b EXCEPT !.fail = n])

\* Any class and data byte, cut anywhere in the header or not at all.
InitIdent ==
    \E c \in 0..MaxIdentByte, d \in 0..MaxIdentByte :
        \E n \in -1..HdrSize(Base(c, d)) : Start([Base(c, d) EXCEPT !.cut = n])

\* Any one magic byte wrong, cut anywhere in the header or not at all.
InitMagic ==
    \E c \in Classes, d \in Datas :
        \E k \in 1..4, n \in -1..HdrSize(Base(c, d)) :
            Start([Base(c, d) EXCEPT !.magic[k] = 0, !.cut = n])

Init ==
    \/ InitCut
    \/ InitMagic
    \/ InitIdent
    \/ InitFail
    \/ InitStructure
    \/ InitStrings
    \/ InitSymtab

Spec == Init /\ [][Next]_vars

-----------------------------------------------------------------------------
(* get_elf_string on its own: any table over {0, 'a', 'b'} of up to        *)
(* MaxStrLen bytes, any start offset up to one past the end.               *)

\* "\0foo\0bar\0"
FooBar == <<0, 102, 111, 111, 0, 98, 97, 114, 0>>

InitStr ==
    /\ strIn \in {[st |-> "call", data |-> t, start |-> n] :
                    t \in SeqsUpTo({0, 97, 98}, MaxStrLen), n \in 0..(MaxStrLen + 1)}
                \cup {[st |-> "call", data |-> FooBar, start |-> n] :
                         n \in 0..(Len(FooBar) + 1)}
    /\ strOut = StrIdle
    /\ stream = <<>>
    /\ failAt = NoFail
    /\ pc = "idle"
    /\ status = "idle"
    /\ err = NoErr
    /\ pos = 0
    /\ eident = Zeros(EI_NIDENT)
    /\ hdr = EmptyHdr
    /\ name_idxs = <<>>
    /\ sections_lst = <<>>
    /\ sections_data = <<>>
    /\ symbols = EmptyMap
    /\ result = NoFile

CallGetElfString ==
    /\ strIn.st = "call"
    /\ strOut.st = "idle"
    /\ strOut' = get_elf_string(strIn.data, strIn.start)
    /\ UNCHANGED <<strIn, parseVars>>

NextStr == CallGetElfString

SpecStr == InitStr /\ [][NextStr]_vars

-----------------------------------------------------------------------------
(* Properties.                                                             *)

Ended == status \in {"ok", "err", "panic"}

\* The stream starts with the four magic bytes.
HasMagic(s) == Len(s) >= 4 /\ SubSeq(s, 1, 4) = ELFMAG

\* The stream holds a class byte that is not a class.
BadClassByte(s) ==
    Len(s) > EI_CLASS /\ s[EI_CLASS + 1] \notin {ELFCLASS32, ELFCLASS64}

\* The stream holds a data byte that is a byte order.
GoodDataByte(s) ==
    Len(s) > EI_DATA /\ s[EI_DATA + 1] \in {ELFDATA2LSB, ELFDATA2MSB}

ErrCauses == {ErrMagic, ErrEndian, ErrClass, ErrIo}

\* The File of a successful parse.
TheFile == result[1]

\* No zero byte at or after offset start of a table.
Unterminated(data, start) ==
    \A i \in (start + 1)..Len(data) : data[i] # 0

\* C1: every parse ends as Ok with a complete File or as Err with one cause
\* and no File; it never panics, and no File exists before the end.
C1_OkOrErr ==
    /\ status # "panic"
    /\ status = "ok" => /\ Len(result) = 1
                        /\ DOMAIN TheFile = {"hdr", "sections", "symbols"}
                        /\ err = NoErr
    /\ status = "err" => err \in ErrCauses /\ result = NoFile
    /\ status = "running" => result = NoFile

\* C2: a stream that does not start with the magic (shorter than four bytes
\* included) fails with "invalid magic number" and yields no File.
C2_BadMagic ==
    (Ended /\ failAt = NoFail /\ ~HasMagic(stream))
        => (status = "err" /\ err = ErrMagic /\ pc = "ident" /\ result = NoFile)

C2_Witness ==
    /\ status = "err" /\ err = ErrMagic
    /\ Len(stream) > EI_NIDENT
    /\ SubSeq(stream, 1, 3) = SubSeq(ELFMAG, 1, 3)

C2_WitnessEmpty == status = "err" /\ err = ErrMagic /\ stream = <<>>

\* C3 as stated: a stream with the magic and a class byte that is neither
\* class fails with "invalid class" whatever the data byte and the rest.
C3_AnyDataByte ==
    (Ended /\ failAt = NoFail /\ HasMagic(stream) /\ BadClassByte(stream))
        => (status = "err" /\ err = ErrClass)

\* C3 amended: with the magic and a class byte that is neither class, the
\* parse fails with "invalid endianness" when the data byte is not a byte
\* order (or is missing), with an I/O error when the data byte is a byte
\* order and the 8 bytes of type, machine and version after the
\* identification block are not all there, and with "invalid class"
\* otherwise.
C3_InvalidClass ==
    (Ended /\ failAt = NoFail /\ HasMagic(stream) /\ BadClassByte(stream))
        => /\ status = "err"
           /\ result = NoFile
           /\ err = IF ~GoodDataByte(stream) THEN ErrEndian
                    ELSE IF Len(stream) < EI_NIDENT + 8 THEN ErrIo
                    ELSE ErrClass

C3_Witness ==
    /\ status = "err" /\ err = ErrClass
    /\ BadClassByte(stream) /\ GoodDataByte(stream)

\* Length of the file header of a class.
HeaderLen(class) == EI_NIDENT + 8 + Sum(HeaderTail(class))

\* The stream stops inside the file header: inside the identification
\* block, or, for the class it names, before the end of shstrndx; the class
\* and data bytes it holds are valid.
CutInHeader(s) ==
    /\ Len(s) > EI_CLASS => s[EI_CLASS + 1] \in {ELFCLASS32, ELFCLASS64}
    /\ Len(s) > EI_DATA => s[EI_DATA + 1] \in {ELFDATA2LSB, ELFDATA2MSB}
    /\ \/ Len(s) < EI_NIDENT
       \/ Len(s) < HeaderLen(s[EI_CLASS + 1])

\* C4: a stream with the magic that stops inside the file header fails
\* with an I/O error.
C4_TruncatedHeader ==
    (Ended /\ failAt = NoFail /\ HasMagic(stream) /\ CutInHeader(stream))
        => (status = "err" /\ err = ErrIo)

\* C5: after a successful parse every payload is as long as its section
\* header's size.
C5_ExactPayload ==
    status = "ok" =>
        \A i \in 1..Len(sections_lst) :
            Len(sections_data[i]) = sections_lst[i].size

\* Section i (from 1) is a symbol table with at least one record that can
\* be read and a link that is no section index, and no symbol table
\* precedes it.
BadLinkTable(i) ==
    /\ sections_lst[i].shtype = SHT_SYMTAB
    /\ sections_lst[i].entsize > 0
    /\ sections_lst[i].size \div sections_lst[i].entsize >= 1
    /\ Len(sections_data[i]) >= Sum(SymWidths(hdr.class))
    /\ sections_lst[i].link >= Len(sections_lst)
    /\ \A j \in 1..(i - 1) : sections_lst[j].shtype # SHT_SYMTAB

\* C6: symbol extraction over a symbol table whose link is no section index
\* does not panic.
C6_BadLinkNoPanic ==
    (Ended /\ pc = "symbols"
        /\ \E i \in 1..Len(sections_lst) : BadLinkTable(i))
        => status # "panic"

\* C7: when some section name has no zero byte at or after its offset in the
\* section-name table, at offset 0 or beyond, the name lookup does not end
\* the parse: the names phase completes and the parse succeeds.
C7_UnterminatedName ==
    (Ended /\ pc \in {"names", "assemble", "done"}
        /\ hdr.shstrndx < Len(sections_data)
        /\ \E i \in 1..Len(name_idxs) :
               Unterminated(sections_data[hdr.shstrndx + 1], name_idxs[i]))
        => status = "ok"

\* C8: when a zero byte exists at or after start, get_elf_string returns the
\* bytes from start up to the first such zero byte, one character per byte;
\* "\0foo\0bar\0" gives "foo" at 1, "bar" at 5 and "" at a zero byte.
C8_TerminatedRun ==
    (strOut.st # "idle" /\ ~Unterminated(strIn.data, strIn.start))
        => /\ strOut.st = "ok"
           /\ LET v == strOut.val
                  n == Len(strOut.val)
              IN  /\ strIn.start + n < Len(strIn.data)
                  /\ strIn.data[strIn.start + n + 1] = 0
                  /\ \A k \in 1..n : v[k] = strIn.data[strIn.start + k] /\ v[k] # 0
           /\ (strIn.data = FooBar /\ strIn.start = 1) => strOut.val = <<102, 111, 111>>
           /\ (strIn.data = FooBar /\ strIn.start = 5) => strOut.val = <<98, 97, 114>>
           /\ (strIn.data = FooBar /\ strIn.start = 4) => strOut.val = <<>>

C8_Witness ==
    strOut.st = "ok" /\ strIn.data = FooBar /\ strIn.start = 5
        /\ strOut.val = <<98, 97, 114>>

\* The records of the symbol tables: <<i, k>> for record k of section i.
SymRecs ==
    UNION {{<<i, k>> : k \in 0..((sections_lst[i].size
                                     \div sections_lst[i].entsize) - 1)} :
             i \in {j \in 1..Len(sections_lst) :
                       sections_lst[j].shtype = SHT_SYMTAB}}

RecAt(x) ==
    SymRecord(hdr.class, hdr.data, sections_data[x[1]],
              sections_lst[x[1]].entsize, x[2])

RecName(x) ==
    get_elf_string(sections_data[sections_lst[x[1]].link + 1],
                   RecAt(x).sym_name).val

\* x is decoded before y.
Before(x, y) == x[1] < y[1] \/ (x[1] = y[1] /\ x[2] < y[2])

\* C9: after a successful parse the symbol mapping has exactly the names of
\* the records 0 .. size / entsize - 1 of the symbol tables, read at
\* k * entsize and named in the section `link`, each with the address of
\* the last record of that name in decoding order.
C9_SymbolMap ==
    status = "ok" =>
        /\ DOMAIN TheFile.symbols = {RecName(x) : x \in SymRecs}
        /\ \A x \in SymRecs :
               (\A y \in SymRecs : RecName(y) = RecName(x) => ~Before(x, y))
                   => TheFile.symbols[RecName(x)] = RecAt(x).sym_addr

C9_Witness ==
    /\ status = "ok"
    /\ \E x, y \in SymRecs :
           /\ Before(x, y) /\ RecName(x) = RecName(y)
           /\ RecAt(x).sym_addr # RecAt(y).sym_addr
    /\ Cardinality(DOMAIN TheFile.symbols) >= 2

\* C10: after a successful parse the section mapping has one entry per
\* distinct section name, holding the address, offset, size and payload of
\* the section of that name with the highest index.
C10_SectionMap ==
    status = "ok" =>
        /\ DOMAIN TheFile.sections =
               {sections_lst[i].name : i \in 1..Len(sections_lst)}
        /\ \A i \in 1..Len(sections_lst) :
               /\ sections_lst[i].name =
                      get_elf_string(sections_data[hdr.shstrndx + 1],
                                     name_idxs[i]).val
               /\ (\A j \in (i + 1)..Len(sections_lst) :
                       sections_lst[j].name # sections_lst[i].name)
                   => TheFile.sections[sections_lst[i].name] =
                          [name |-> sections_lst[i].name,
                           addr |-> sections_lst[i].addr,
                           offset |-> sections_lst[i].offset,
                           size |-> sections_lst[i].size,
                           data |-> sections_data[i]]

C10_Witness ==
    /\ status = "ok"
    /\ \E i, j \in 1..Len(sections_lst) :
           /\ i < j
           /\ sections_lst[i].name = sections_lst[j].name
           /\ sections_data[i] # sections_data[j]

=============================================================================
